---------------------------- MODULE Spec2Model ----------------------------
(***************************************************************************)
(* Model of the Instagram chatbot backend: the session store               *)
(* (handlers/session_manager.py), the typing-delay calculation             *)
(* (handlers/delay_handler.py), the keyword trigger matcher                *)
(* (handlers/media_handler.py) and the per-event webhook pipeline with its *)
(* task registry (app.py).                                                 *)
(*                                                                         *)
(* Texts are sequences of one-character strings.  Clock readings are       *)
(* integers counting minutes.  Delays are integers: configuration values   *)
(* in milliseconds, jitter in permille, results in microseconds, so that   *)
(* calculated_delay * random_factor is exact.                              *)
(***************************************************************************)
EXTENDS Integers, Sequences, FiniteSets, TLC

VARIABLES
    now,               \* the reading datetime.now() returns
    sessions,          \* SessionManager.sessions: user -> list of turns
    last_activity,     \* SessionManager.last_activity: user -> reading
    calls,             \* number of store calls made (bounded by MaxCalls)
    seen_users,        \* history: the users add_message has recorded a turn for
    call,              \* the last call made, its arguments and its result
    delay_config,      \* DelayHandler.delay_config
    keyword_triggers,  \* MediaHandler.keyword_triggers
    message_tasks,     \* app.message_tasks: key -> task
    tasks,             \* the asyncio tasks of handle_user_message, by creation
    wh_left,           \* messaging events process_webhook's loop has still to go over
    deliveries         \* the runs of send_text_with_delay started by /test/send

vars == <<now, sessions, last_activity, calls, seen_users, call, delay_config,
          keyword_triggers, message_tasks, tasks, wh_left, deliveries>>

storeVars == <<sessions, last_activity>>
pipeVars == <<message_tasks, tasks, wh_left, deliveries>>

---------------------------------------------------------------------------
(* Bounds of the model.                                                    *)

\* Largest clock reading explored.
MaxTime == 46

\* Number of session store calls explored by SpecStore.
MaxCalls == 4


Users == {"u1", "u2"}
Roles == {"user", "assistant"}

---------------------------------------------------------------------------
(* Generic helpers: Python dict and list operations.                       *)

Max(a, b) == IF a >= b THEN a ELSE b
Min(a, b) == IF a <= b THEN a ELSE b

\* dict without key k (del d[k]).
DictDel(d, k) == [x \in (DOMAIN d) \ {k} |-> d[x]]

\* dict with d[k] = v.
DictPut(d, k, v) == [x \in (DOMAIN d) \cup {k} |-> IF x = k THEN v ELSE d[x]]

EmptyDict == [x \in {} |-> 0]

\* Python's lst[-n:] for n >= 0: the last n items, the whole list when
\* n exceeds its length, and the whole list when n = 0 (lst[-0:] is lst[0:]).
PySliceLast(lst, n) ==
    IF n = 0 THEN lst ELSE SubSeq(lst, Max(1, Len(lst) - n + 1), Len(lst))

---------------------------------------------------------------------------
(* Session store: handlers/session_manager.py                              *)

\* session_timeout_minutes = 30
session_timeout == 30

\* "Keep only last 20 messages per user"
HistoryCap == 20

\* The clock advances by one of these amounts between two calls: two of the
\* smaller make exactly the session timeout, one of each exceeds it.
TickSteps == {session_timeout \div 2, (session_timeout \div 2) + 1}

\* A store value: the two dicts of a SessionManager.
Store == [sessions |-> sessions, last_activity |-> last_activity]

EmptyStore == [sessions |-> EmptyDict, last_activity |-> EmptyDict]

\* clear_session that deletes the history and leaves the activity marker.
clear_session_keeping_marker(st, user_id) ==
    [sessions |-> DictDel(st.sessions, user_id),
     last_activity |-> st.last_activity]

\* clear_session: delete the user's history and activity marker, each if present.
clear_session(st, user_id) ==
    [sessions |-> IF user_id \in DOMAIN st.sessions
                  THEN DictDel(st.sessions, user_id) ELSE st.sessions,
     last_activity |-> IF user_id \in DOMAIN st.last_activity
                       THEN DictDel(st.last_activity, user_id)
                       ELSE st.last_activity]

\* expired_users of _cleanup_old_sessions, with >= in place of >.
expired_users_at_timeout(st, t) ==
    {u \in DOMAIN st.last_activity : t - st.last_activity[u] >= session_timeout}

\* expired_users of _cleanup_old_sessions, with the operands of the
\* subtraction swapped.
expired_users_swapped(st, t) ==
    {u \in DOMAIN st.last_activity : st.last_activity[u] - t > session_timeout}

\* expired_users of _cleanup_old_sessions: now - last_time > session_timeout.
expired_users(st, t) ==
    {u \in DOMAIN st.last_activity : t - st.last_activity[u] > session_timeout}

\* for user_id in expired_users: self.clear_session(user_id)
RECURSIVE clear_all(_, _)
clear_all(st, us) ==
    IF us = {} THEN st
    ELSE LET u == CHOOSE x \in us : TRUE
         IN clear_all(clear_session(st, u), us \ {u})

\* _cleanup_old_sessions at clock reading t.
cleanup_old_sessions(st, t) == clear_all(st, expired_users(st, t))

\* self.sessions[user_id] of a defaultdict(list).
history_of(st, user_id) ==
    IF user_id \in DOMAIN st.sessions THEN st.sessions[user_id] ELSE <<>>

\* add_message without the truncation to the last 20 messages.
add_message_untruncated(st, user_id, role, content, t) ==
    LET s1 == cleanup_old_sessions(st, t)
        message == [role |-> role, content |-> content, timestamp |-> t]
    IN [sessions |-> DictPut(s1.sessions, user_id,
                             Append(history_of(s1, user_id), message)),
        last_activity |-> DictPut(s1.last_activity, user_id, t)]

\* add_message with an append that stores a list of the new message alone
\* in place of the user's list.
add_message_overwriting(st, user_id, role, content, t) ==
    LET s1 == cleanup_old_sessions(st, t)
        message == [role |-> role, content |-> content, timestamp |-> t]
    IN [sessions |-> DictPut(s1.sessions, user_id, <<message>>),
        last_activity |-> DictPut(s1.last_activity, user_id, t)]

\* add_message without the assignment to last_activity.
add_message_without_stamp(st, user_id, role, content, t) ==
    LET s1 == cleanup_old_sessions(st, t)
        message == [role |-> role, content |-> content, timestamp |-> t]
        appended == Append(history_of(s1, user_id), message)
    IN [sessions |-> DictPut(s1.sessions, user_id,
                             PySliceLast(appended,
                                         Min(Len(appended), HistoryCap))),
        last_activity |-> s1.last_activity]

\* add_message with the sweep made after the append and the stamp.
add_message_sweeping_last(st, user_id, role, content, t) ==
    LET message == [role |-> role, content |-> content, timestamp |-> t]
        appended == Append(history_of(st, user_id), message)
        s1 == [sessions |-> DictPut(st.sessions, user_id,
                                    PySliceLast(appended,
                                                Min(Len(appended),
                                                    HistoryCap))),
               last_activity |-> DictPut(st.last_activity, user_id, t)]
    IN cleanup_old_sessions(s1, t)

\* add_message with a truncation that keeps the first 20 messages.
add_message_keeping_oldest(st, user_id, role, content, t) ==
    LET s1 == cleanup_old_sessions(st, t)
        message == [role |-> role, content |-> content, timestamp |-> t]
        appended == Append(history_of(s1, user_id), message)
    IN [sessions |-> DictPut(s1.sessions, user_id,
                             SubSeq(appended, 1,
                                    Min(Len(appended), HistoryCap))),
        last_activity |-> DictPut(s1.last_activity, user_id, t)]

\* add_message at clock reading t: sweep, append, stamp, truncate.
add_message(st, user_id, role, content, t) ==
    LET s1 == cleanup_old_sessions(st, t)
        message == [role |-> role, content |-> content, timestamp |-> t]
        appended == Append(history_of(s1, user_id), message)
        kept == IF Len(appended) > HistoryCap
                THEN PySliceLast(appended, HistoryCap) ELSE appended
    IN [sessions |-> DictPut(s1.sessions, user_id, kept),
        last_activity |-> DictPut(s1.last_activity, user_id, t)]

\* get_active_count: sweep, then len(self.sessions).
get_active_count(st, t) ==
    LET s1 == cleanup_old_sessions(st, t)
    IN [store |-> s1, ret |-> Cardinality(DOMAIN s1.sessions)]

\* get_context(user_id, max_messages): the last max_messages turns,
\* each reduced to role and content.
get_context(st, user_id, max_messages) ==
    LET messages == IF user_id \in DOMAIN st.sessions
                    THEN st.sessions[user_id] ELSE <<>>
        recent == PySliceLast(messages, max_messages)
    IN [i \in 1..Len(recent) |->
           [role |-> recent[i].role, content |-> recent[i].content]]

\* get_total_count: len(self.sessions) + len(self.last_activity).
get_total_count(st) ==
    Cardinality(DOMAIN st.sessions) + Cardinality(DOMAIN st.last_activity)

\* The store after k add_message calls for u1 at clock reading 0, the roles
\* alternating as a conversation's do.
RECURSIVE Preload(_)
Preload(k) ==
    IF k = 0 THEN EmptyStore
    ELSE add_message(Preload(k - 1), "u1",
                     IF k % 2 = 1 THEN "user" ELSE "assistant", <<"h", "i">>, 0)

---------------------------------------------------------------------------
(* Default values of the parts of the state a specification leaves alone.  *)

\* config["typing_delay"] of app.py's fallback configuration, in ms/permille.
DefaultDelayConfig ==
    [base_seconds |-> 1000, per_word_seconds |-> 150,
     max_seconds |-> 5000, randomness_factor |-> 300]

NoCall == [op |-> "none"]

---------------------------------------------------------------------------
(* SpecStore: the session store driven call by call.                       *)

StoreTexts == {<<"h", "i">>}

\* The stores the exploration starts from: the empty store of __init__, and
\* a store one turn short of the cap, so that a few calls reach the cap.
StoreSeeds == {EmptyStore, Preload(HistoryCap - 1)}

\* Values of max_messages: none, one, and the default of get_context.
ContextLimits == {0, 1, 10}

InitStore ==
    /\ now = 0
    /\ \E seed \in StoreSeeds :
          /\ sessions = seed.sessions
          /\ last_activity = seed.last_activity
          /\ seen_users = DOMAIN seed.sessions
    /\ calls = 0
    /\ call = NoCall
    /\ delay_config = DefaultDelayConfig
    /\ keyword_triggers = <<>>
    /\ message_tasks = EmptyDict
    /\ tasks = <<>>
    /\ wh_left = 0
    /\ deliveries = <<>>

\* A call session_manager.add_message(user_id, role, content).
AddMessage(user_id, role, content) ==
    /\ calls < MaxCalls
    /\ LET st == add_message(Store, user_id, role, content, now)
       IN /\ sessions' = st.sessions
          /\ last_activity' = st.last_activity
    /\ calls' = calls + 1
    /\ seen_users' = seen_users \cup {user_id}
    /\ call' = [op |-> "add_message", user |-> user_id,
                role |-> role, content |-> content,
                before |-> Len(history_of(Store, user_id)),
                swept |-> expired_users(Store, now), ret |-> 0]
    /\ UNCHANGED <<now, delay_config, keyword_triggers, pipeVars>>

\* A call session_manager.clear_session(user_id).
ClearSession(user_id) ==
    /\ calls < MaxCalls
    /\ LET st == clear_session(Store, user_id)
       IN /\ sessions' = st.sessions
          /\ last_activity' = st.last_activity
    /\ calls' = calls + 1
    /\ call' = [op |-> "clear_session", user |-> user_id,
                before |-> Len(history_of(Store, user_id)),
                swept |-> {}, ret |-> 0]
    /\ UNCHANGED <<now, seen_users, delay_config, keyword_triggers, pipeVars>>

\* A call session_manager.get_active_count().
GetActiveCount ==
    /\ calls < MaxCalls
    /\ LET r == get_active_count(Store, now)
       IN /\ sessions' = r.store.sessions
          /\ last_activity' = r.store.last_activity
          /\ call' = [op |-> "get_active_count", user |-> "",
                      before |-> 0,
                      swept |-> expired_users(Store, now), ret |-> r.ret]
    /\ calls' = calls + 1
    /\ UNCHANGED <<now, seen_users, delay_config, keyword_triggers, pipeVars>>

\* GetContext for a get_context that sweeps before it reads, as
\* get_active_count does.
GetContext_sweeping(user_id, max_messages) ==
    /\ calls < MaxCalls
    /\ calls' = calls + 1
    /\ LET s1 == cleanup_old_sessions(Store, now)
       IN /\ sessions' = s1.sessions
          /\ last_activity' = s1.last_activity
          /\ call' = [op |-> "get_context", user |-> user_id,
                      limit |-> max_messages,
                      ret |-> get_context(s1, user_id, max_messages)]
    /\ UNCHANGED <<now, seen_users, delay_config, keyword_triggers, pipeVars>>

\* A call session_manager.get_context(user_id, max_messages).
GetContext(user_id, max_messages) ==
    /\ calls < MaxCalls
    /\ calls' = calls + 1
    /\ call' = [op |-> "get_context", user |-> user_id,
                limit |-> max_messages,
                ret |-> get_context(Store, user_id, max_messages)]
    /\ UNCHANGED <<now, storeVars, seen_users, delay_config,
                   keyword_triggers, pipeVars>>

\* A call session_manager.get_total_count().
GetTotalCount ==
    /\ calls < MaxCalls
    /\ calls' = calls + 1
    /\ call' = [op |-> "get_total_count", ret |-> get_total_count(Store)]
    /\ UNCHANGED <<now, storeVars, seen_users, delay_config,
                   keyword_triggers, pipeVars>>

\* Time passes between two calls.
Tick ==
    /\ \E d \in TickSteps :
          /\ now + d <= MaxTime
          /\ now' = now + d
    /\ call' = [op |-> "tick"]
    /\ UNCHANGED <<storeVars, calls, seen_users, delay_config,
                   keyword_triggers, pipeVars>>

NextStore ==
    \/ \E u \in Users, r \in Roles, c \in StoreTexts : AddMessage(u, r, c)
    \/ \E u \in Users : ClearSession(u)
    \/ GetActiveCount
    \/ \E u \in Users, n \in ContextLimits : GetContext(u, n)
    \/ GetTotalCount
    \/ Tick

SpecStore == InitStore /\ [][NextStore]_vars

\* The idle time of a user with an activity marker.
IdleTime(u) == now - last_activity[u]

(* C1: after any sequence of add_message calls, by any users and at any    *)
(* clock readings, every session's history holds at most 20 turns.         *)
C1_HistoryWithinCap ==
    \A u \in DOMAIN sessions : Len(sessions[u]) <= HistoryCap

\* An add_message has just acted on a history that was full, and left it full.
C1_Witness ==
    /\ call.op = "add_message"
    /\ call.before = HistoryCap
    /\ Len(sessions[call.user]) = HistoryCap

(* C2: when a sweep-triggering call (get_active_count, or add_message by   *)
(* another user) has returned, no session idle for more than the timeout   *)
(* remains in the store, and get_active_count has returned the number of   *)
(* sessions that remain.                                                   *)
C2_SweepRemovesExpired ==
    /\ call.op \in {"get_active_count", "add_message"} =>
          \A u \in (DOMAIN sessions) \cup (DOMAIN last_activity) :
              /\ u \in DOMAIN last_activity
              /\ IdleTime(u) <= session_timeout
    /\ call.op = "get_active_count" =>
          call.ret = Cardinality(DOMAIN sessions)

\* An add_message by one user has swept the expired session of another.
C2_Witness ==
    /\ call.op = "add_message"
    /\ call.swept # {}
    /\ call.user \notin call.swept

\* A step that sweeps (get_active_count, or add_message before its append)
\* leaves unchanged the history and the last-activity reading of every
\* session whose idle time does not exceed the timeout, the session
\* add_message appends to excepted.
C3_SweepStep ==
    call'.op \in {"get_active_count", "add_message"} =>
        \A u \in DOMAIN sessions :
            ( /\ u \in DOMAIN last_activity
              /\ IdleTime(u) <= session_timeout
              /\ ~(call'.op = "add_message" /\ call'.user = u) )
            => /\ u \in DOMAIN sessions'
               /\ sessions'[u] = sessions[u]
               /\ u \in DOMAIN last_activity'
               /\ last_activity'[u] = last_activity[u]

(* C3: an expiry sweep (in get_active_count, or before the append of       *)
(* add_message) leaves unchanged the history and the last-activity reading *)
(* of every session whose idle time does not exceed the timeout: only      *)
(* expired users' entries are removed.                                     *)
C3_SweepKeepsLiveSessions == [][C3_SweepStep]_vars

\* A get_active_count has swept an expired session while another survived,
\* one that was idle for exactly the timeout.
C3_Witness ==
    /\ call.op = "get_active_count"
    /\ call.swept # {}
    /\ \E u \in DOMAIN sessions :
          u \in DOMAIN last_activity /\ IdleTime(u) = session_timeout

\* The value a call of get_total_count returns in the current state.
TotalCount == get_total_count(Store)

(* C16: the value get_total_count returns never decreases over any         *)
(* sequence of store operations (add_message, sweeps, expiry,              *)
(* clear_session), and it equals the number of distinct users that have    *)
(* ever recorded a turn.                                                   *)
C16_TotalCountMonotone ==
    [][ /\ TotalCount' >= TotalCount
        /\ TotalCount' = Cardinality(seen_users') ]_vars

\* The last min(n, Len(lst)) elements of lst.
LastTurns(lst, n) ==
    SubSeq(lst, Len(lst) - Min(n, Len(lst)) + 1, Len(lst))

(* C17: for every user and every limit >= 0, also 0 and limits beyond the  *)
(* history's length, get_context(user, limit) returns exactly the last     *)
(* min(limit, length) turns of the user's history, in order, each reduced  *)
(* to role and content, and the empty sequence for a user with no session. *)
C17_ContextIsLastTurns ==
    call.op = "get_context" =>
        IF call.user \in DOMAIN sessions
        THEN LET last == LastTurns(sessions[call.user], call.limit)
             IN /\ Len(call.ret) = Len(last)
                /\ \A i \in DOMAIN last :
                      call.ret[i] = [role |-> last[i].role,
                                     content |-> last[i].content]
        ELSE call.ret = <<>>

\* An add_message step for a user whose session is live (present and not
\* expired at this reading) leaves the history with the new turn appended
\* and, beyond the cap, its first turn dropped.
C18_AppendStep ==
    ( /\ call'.op = "add_message"
      /\ call'.user \in DOMAIN sessions
      /\ call'.user \notin expired_users(Store, now) )
    => LET old == sessions[call'.user]
           turn == [role |-> call'.role, content |-> call'.content,
                    timestamp |-> now]
       IN /\ call'.user \in DOMAIN sessions'
          /\ sessions'[call'.user] =
                IF Len(old) < HistoryCap
                THEN Append(old, turn)
                ELSE Append(Tail(old), turn)

(* C18: truncation drops the oldest turns first: each add_message for a    *)
(* live session appends its turn at the end and drops the first turn once  *)
(* the cap is exceeded, so that after n appends with no expiry or clear in *)
(* between the history is the last min(n, 20) of the turns appended, in    *)
(* the order they were appended.                                           *)
C18_TruncationDropsOldest == [][C18_AppendStep]_vars

\* An add_message has acted on a full history of a live session: the turn
\* that was second is now first, and the new turn is last.
C18_Witness ==
    /\ call.op = "add_message"
    /\ call.before = HistoryCap
    /\ call.swept = {}
    /\ Len(sessions[call.user]) = HistoryCap
    /\ sessions[call.user][1].role = "assistant"
    /\ sessions[call.user][HistoryCap].role = call.role
    /\ sessions[call.user][HistoryCap].timestamp = now

\* A clear_session step leaves neither a history nor an activity marker of
\* its user, leaves the entries of every other user as they were, and
\* leads to a store that a second clear_session of the user leaves as it
\* is.
C27_ClearStep ==
    call'.op = "clear_session" =>
        LET u == call'.user
        IN /\ u \notin DOMAIN sessions'
           /\ u \notin DOMAIN last_activity'
           /\ DOMAIN sessions' = (DOMAIN sessions) \ {u}
           /\ DOMAIN last_activity' = (DOMAIN last_activity) \ {u}
           /\ \A v \in DOMAIN sessions' : sessions'[v] = sessions[v]
           /\ \A v \in DOMAIN last_activity' :
                 last_activity'[v] = last_activity[v]
           /\ clear_session(Store', u) = Store'

(* C27: clear_session is idempotent: a second clear_session(user) leaves   *)
(* the store as the first left it, the call succeeds for a user with no    *)
(* session, and after it neither the history nor the activity marker of    *)
(* the user is present while all other users' entries are unchanged.       *)
C27_ClearIsIdempotent == [][C27_ClearStep]_vars

\* clear_session has returned for a user who had no session, while the
\* store held the session of another user.
C27_Witness ==
    /\ call.op = "clear_session"
    /\ call.before = 0
    /\ DOMAIN sessions # {}
    /\ call.user \notin DOMAIN sessions

(* C28: in every reachable state of the store the users with a history     *)
(* are the users with a last-activity reading, whatever add_message,       *)
(* get_context, clear_session, sweep and get_active_count calls were made. *)
C28_HistoryIffMarker == DOMAIN sessions = DOMAIN last_activity

\* clear_session has removed the session of one user, and another user's
\* history and activity marker remain.
C28_Witness ==
    /\ call.op = "clear_session"
    /\ call.before > 0
    /\ DOMAIN sessions # {}
    /\ DOMAIN last_activity # {}

\* An add_message step for a user whose own idle time exceeds the timeout
\* leaves that user's history as the new turn alone.
C29_ExpiredAppendStep ==
    ( /\ call'.op = "add_message"
      /\ call'.user \in DOMAIN last_activity
      /\ now - last_activity[call'.user] > session_timeout )
    => /\ call'.user \in DOMAIN sessions'
       /\ sessions'[call'.user] =
             << [role |-> call'.role, content |-> call'.content,
                 timestamp |-> now] >>

(* C29: when add_message is called for a user whose own idle time exceeds  *)
(* the timeout, the sweep before the append discards the user's earlier    *)
(* history, so the resulting history is the new turn only, for a user turn *)
(* and for an assistant turn alike.                                        *)
C29_ExpiredHistoryDiscarded == [][C29_ExpiredAppendStep]_vars

\* An assistant turn has been recorded for a user whose session, with
\* earlier turns, had expired: the history holds one turn.
C29_Witness ==
    /\ call.op = "add_message"
    /\ call.role = "assistant"
    /\ call.user \in call.swept
    /\ call.before > 1
    /\ Len(sessions[call.user]) = 1

\* A get_context step changes neither dict of the store, and for a user
\* with a session and a limit of at least 1 it returns turns ending with
\* the session's last turn, whatever the session's idle time.
C30_ReadStep ==
    call'.op = "get_context" =>
        /\ sessions' = sessions
        /\ last_activity' = last_activity
        /\ IF call'.user \in DOMAIN sessions /\ call'.limit >= 1
           THEN LET h == sessions[call'.user]
                    r == call'.ret
                IN /\ r # <<>>
                   /\ r[Len(r)] = [role |-> h[Len(h)].role,
                                   content |-> h[Len(h)].content]
           ELSE call'.user \notin DOMAIN sessions => call'.ret = <<>>

(* C30: get_context changes nothing in the store: it creates no session    *)
(* for an unknown user, does not update last-activity, triggers no expiry  *)
(* sweep (it returns the turns of a session idle for more than the timeout *)
(* as long as no sweeping call has run), and leaves every history          *)
(* unchanged.                                                              *)
C30_GetContextReadsOnly == [][C30_ReadStep]_vars

\* get_context has returned the turns of a session idle for more than the
\* timeout, which is still in the store.
C30_Witness ==
    /\ call.op = "get_context"
    /\ call.limit >= 1
    /\ call.user \in DOMAIN last_activity
    /\ IdleTime(call.user) > session_timeout
    /\ call.ret # <<>>

---------------------------------------------------------------------------
(* Typing delay: handlers/delay_handler.py                                 *)

\* Largest number of words in a text handed to calculate_delay.
MaxWords == 20

\* len(text.split()): the number of maximal runs of non-blank characters.
WordCount(text) ==
    Cardinality({i \in 1..Len(text) :
                    /\ text[i] # " "
                    /\ (i = 1 \/ text[i - 1] = " ")})

\* calculate_delay without the branch for texts of at most three words.
calculate_delay_without_short_branch(cfg, text, message_type, r) ==
    IF message_type \in {"media", "voice"}
    THEN 500 * 1000
    ELSE LET calculated_delay ==
                 cfg.base_seconds + (WordCount(text) * cfg.per_word_seconds)
             capped == Min(calculated_delay, cfg.max_seconds)
         IN Max(500 * 1000, capped * (1000 + r))

\* calculate_delay(text, message_type) under configuration cfg, where r is
\* the number random.uniform(-randomness, randomness) returns.  cfg is in
\* milliseconds, r in permille, the result in microseconds.
calculate_delay(cfg, text, message_type, r) ==
    IF message_type \in {"media", "voice"}
    THEN 500 * 1000
    ELSE LET base_delay == cfg.base_seconds
             per_word == cfg.per_word_seconds
             max_delay == cfg.max_seconds
             word_count == WordCount(text)
             calculated_delay ==
                 IF word_count <= 3
                 THEN 800 + (word_count * 200)
                 ELSE base_delay + (word_count * per_word)
             capped == Min(calculated_delay, max_delay)
             final_delay == capped * (1000 + r)
         IN Max(500 * 1000, final_delay)

\* Values random.uniform(-randomness, randomness) can return: both ends,
\* the middle, and a point in each half.
JitterDraws(cfg) ==
    LET R == cfg.randomness_factor
    IN {-R, -(R \div 2), 0, R \div 2, R}

\* Delay configurations: app.py's fallback values and values
\* update_delay_settings accepts (it takes any number for each field).
\* max_seconds stays above 0.5 s, so that [0.5, max_seconds] is not empty.
DelayConfigs ==
    [base_seconds : {1000, 2000}, per_word_seconds : {150, 300},
     max_seconds : {1200, 5000}, randomness_factor : {0, 300}]

\* The text of n words "a", separated by single blanks.
RECURSIVE Words(_)
Words(n) ==
    IF n = 0 THEN <<>>
    ELSE IF n = 1 THEN <<"a">>
    ELSE Words(n - 1) \o <<" ", "a">>

\* Texts handed to calculate_delay: 0..MaxWords words, and texts with
\* leading, trailing and repeated blanks.
DelayTexts ==
    {Words(n) : n \in 0..MaxWords}
    \cup {<<" ">>, <<" ", "a", " ", " ", "a", " ">>}

InitDelay ==
    /\ now = 0
    /\ sessions = EmptyDict
    /\ last_activity = EmptyDict
    /\ seen_users = {}
    /\ calls = 0
    /\ call = NoCall
    /\ delay_config \in DelayConfigs
    /\ keyword_triggers = <<>>
    /\ message_tasks = EmptyDict
    /\ tasks = <<>>
    /\ wh_left = 0
    /\ deliveries = <<>>

\* A call delay_handler.calculate_delay(text, message_type), the random
\* source returning r.
CalculateDelay(text, message_type, r) ==
    /\ call' = [op |-> "calculate_delay", text |-> text,
                message_type |-> message_type, jitter |-> r,
                ret |-> calculate_delay(delay_config, text, message_type, r)]
    /\ UNCHANGED <<now, storeVars, calls, seen_users, delay_config,
                   keyword_triggers, pipeVars>>

NextDelay ==
    \E text \in DelayTexts, mt \in {"text", "media", "voice"},
       r \in JitterDraws(delay_config) :
        CalculateDelay(text, mt, r)

SpecDelay == InitDelay /\ [][NextDelay]_vars

(* C4: for every text, every delay configuration and every jitter factor   *)
(* in [1 - jitter, 1 + jitter], calculate_delay(text, "text") returns at   *)
(* least 0.5 s and at most max_seconds.                                    *)
C4_DelayWithinBounds ==
    (call.op = "calculate_delay" /\ call.message_type = "text") =>
        /\ call.ret >= 500 * 1000
        /\ call.ret <= delay_config.max_seconds * 1000

(* C26: for a text of w whitespace-delimited words the un-jittered delay   *)
(* is min(0.8 + 0.2 w, max_seconds) when w <= 3, also for w = 0 and        *)
(* whatever base_seconds and per_word_seconds are, and                     *)
(* min(base_seconds + w per_word_seconds, max_seconds) when w > 3; the     *)
(* delay returned is max(0.5, that value times the jitter factor).         *)
C26_DelayFormula ==
    (call.op = "calculate_delay" /\ call.message_type = "text") =>
        LET w == WordCount(call.text)
            unjittered ==
                IF w <= 3
                THEN Min(800 + (200 * w), delay_config.max_seconds)
                ELSE Min(delay_config.base_seconds
                             + (w * delay_config.per_word_seconds),
                         delay_config.max_seconds)
        IN call.ret = Max(500 * 1000, unjittered * (1000 + call.jitter))

\* calculate_delay has returned 1.4 s times a jitter factor above 1 for a
\* text of three words, under a base_seconds of 2 s.
C26_Witness ==
    /\ call.op = "calculate_delay"
    /\ call.message_type = "text"
    /\ WordCount(call.text) = 3
    /\ delay_config.base_seconds = 2000
    /\ call.jitter > 0
    /\ call.ret = 1400 * (1000 + call.jitter)

---------------------------------------------------------------------------
(* Trigger matcher: handlers/media_handler.py                              *)

\* Largest number of triggers in a table, and longest message text, explored
\* by SpecTrigger.
MaxTriggers == 2
MaxTextLen == 2

\* The letters str.lower() changes, with their lower-case forms.
UpperToLower == ("A" :> "a") @@ ("B" :> "b") @@ ("P" :> "p")

\* str.lower() of one character.
LowerChar(c) == IF c \in DOMAIN UpperToLower THEN UpperToLower[c] ELSE c

\* str.lower()
ToLower(text) == [i \in 1..Len(text) |-> LowerChar(text[i])]

\* Python's `keyword in text`: keyword is a contiguous part of text (the
\* empty string is part of every text).
IsSubstring(keyword, text) ==
    \E i \in 0..(Len(text) - Len(keyword)) :
        SubSeq(text, i + 1, i + Len(keyword)) = keyword

\* The result None of check_triggers.
NoTrigger == [matched |-> FALSE]

\* The dict check_triggers returns for a trigger.
Descriptor(trigger) ==
    [matched |-> TRUE, type |-> trigger.type, path |-> trigger.path,
     name |-> trigger.name]

\* The inner loop of check_triggers with the keyword tested as configured.
RECURSIVE any_keyword_as_written(_, _, _)
any_keyword_as_written(keywords, j, message_lower) ==
    IF j > Len(keywords) THEN FALSE
    ELSE IF IsSubstring(keywords[j], message_lower) THEN TRUE
    ELSE any_keyword_as_written(keywords, j + 1, message_lower)

\* The inner loop of check_triggers: does a keyword from position j on
\* match?  Each keyword is lower-cased before the test.
RECURSIVE any_keyword(_, _, _)
any_keyword(keywords, j, message_lower) ==
    IF j > Len(keywords) THEN FALSE
    ELSE IF IsSubstring(ToLower(keywords[j]), message_lower) THEN TRUE
    ELSE any_keyword(keywords, j + 1, message_lower)

\* The outer loop of check_triggers from table position i on.
RECURSIVE scan_triggers(_, _, _)
scan_triggers(triggers, i, message_lower) ==
    IF i > Len(triggers) THEN NoTrigger
    ELSE IF any_keyword(triggers[i].keywords, 1, message_lower)
         THEN Descriptor(triggers[i])
         ELSE scan_triggers(triggers, i + 1, message_lower)

\* check_triggers(message_text) over the table `triggers`.
check_triggers(triggers, message_text) ==
    scan_triggers(triggers, 1, ToLower(message_text))

\* Triggers a table may hold: overlapping keywords in both cases, an empty
\* keyword, and an empty keyword list.
TriggerPool ==
    { [name |-> "t1", keywords |-> << <<"a", "b">> >>,
       type |-> "image", path |-> "p1"],
      [name |-> "t2", keywords |-> << <<"A", "B">>, <<"b">> >>,
       type |-> "audio", path |-> "p2"],
      [name |-> "t3", keywords |-> << <<"B", "a">> >>,
       type |-> "image", path |-> "p3"],
      [name |-> "t4", keywords |-> << <<>> >>,
       type |-> "audio", path |-> "p4"],
      [name |-> "t5", keywords |-> <<>>,
       type |-> "image", path |-> "p5"] }

\* Sequences of length at most n over the set S.
SeqsUpTo(S, n) == UNION {[1..k -> S] : k \in 0..n}

TriggerTables == SeqsUpTo(TriggerPool, MaxTriggers)

TriggerTexts == SeqsUpTo({"a", "A", "b", "B"}, MaxTextLen)

InitTrigger ==
    /\ now = 0
    /\ sessions = EmptyDict
    /\ last_activity = EmptyDict
    /\ seen_users = {}
    /\ calls = 0
    /\ call = NoCall
    /\ delay_config = DefaultDelayConfig
    /\ keyword_triggers \in TriggerTables
    /\ message_tasks = EmptyDict
    /\ tasks = <<>>
    /\ wh_left = 0
    /\ deliveries = <<>>

\* A call media_handler.check_triggers(message_text).
CheckTriggers(message_text) ==
    /\ call' = [op |-> "check_triggers", text |-> message_text,
                ret |-> check_triggers(keyword_triggers, message_text)]
    /\ UNCHANGED <<now, storeVars, calls, seen_users, delay_config,
                   keyword_triggers, pipeVars>>

NextTrigger == \E text \in TriggerTexts : CheckTriggers(text)

SpecTrigger == InitTrigger /\ [][NextTrigger]_vars

\* keyword occurs in text when the case of letters is ignored.
OccursIgnoringCase(keyword, text) ==
    \E off \in 0..(Len(text) - Len(keyword)) :
        \A k \in 1..Len(keyword) :
            LowerChar(keyword[k]) = LowerChar(text[off + k])

\* The table positions of the triggers with a keyword occurring in text.
MatchingTriggers(triggers, text) ==
    {i \in 1..Len(triggers) :
        \E j \in 1..Len(triggers[i].keywords) :
            OccursIgnoringCase(triggers[i].keywords[j], text)}

(* C5: check_triggers ignores case and returns the descriptor (type, path, *)
(* name) of the first trigger in table order with a keyword occurring in   *)
(* the text, whatever later triggers match; it returns no override exactly *)
(* when no keyword of any trigger occurs in the text.                      *)
C5_FirstMatchingTrigger ==
    call.op = "check_triggers" =>
        LET M == MatchingTriggers(keyword_triggers, call.text)
        IN IF M = {}
           THEN call.ret = NoTrigger
           ELSE LET first == CHOOSE i \in M : \A k \in M : i <= k
                IN call.ret = Descriptor(keyword_triggers[first])

\* Two triggers match a text with an upper-case letter only through
\* keywords written in the other case, and the first one was returned.
C5_Witness ==
    /\ call.op = "check_triggers"
    /\ MatchingTriggers(keyword_triggers, call.text) = {1, 2}
    /\ keyword_triggers[1].name # keyword_triggers[2].name
    /\ call.ret = Descriptor(keyword_triggers[1])
    /\ \A i \in {1, 2} :
          \A j \in 1..Len(keyword_triggers[i].keywords) :
              ~IsSubstring(keyword_triggers[i].keywords[j], call.text)

---------------------------------------------------------------------------
(* Webhook pipeline and task registry: app.py                              *)

\* Number of handle_user_message tasks created in a run, number of
\* messaging events in one webhook payload, and largest clock reading of a
\* pipeline run.
MaxTasks == 2
MaxEvents == 2
MaxPipelineTime == 32

\* The clock advance between two steps of the pipeline: one advance stays
\* within the session timeout, two exceed it.
PipelineTickStep == (session_timeout \div 2) + 1

\* sender_id when the event has no sender: .get("sender", {}).get("id")
NoneId == "None"

\* The parameters of OpenAIHandler.generate_response after self.
generate_response_params == <<"user_message", "conversation_history">>

\* Python's binding of a call's arguments to generate_response's
\* parameters: npos positional arguments and the keyword arguments kws.
\* A call that does not bind raises TypeError before the body runs.
generate_response_binds(npos, kws) ==
    /\ npos <= Len(generate_response_params)
    /\ \A k \in kws :
          \E i \in (npos + 1)..Len(generate_response_params) :
              generate_response_params[i] = k

\* cleanup_tasks with the test of task.done() inverted.
cleanup_tasks_inverted(registry, ts) ==
    [k \in {x \in DOMAIN registry : ts[registry[x]].pc = "done"} |->
        registry[k]]

\* cleanup_tasks: delete the keys whose task is done.
cleanup_tasks(registry, ts) ==
    [k \in {x \in DOMAIN registry : ts[registry[x]].pc # "done"} |->
        registry[k]]

\* The task asyncio.create_task(handle_user_message(...)) returns: it runs
\* to its first suspension, the request of get_user_info.  steps is the
\* log of the pipeline steps taken for the event, from the registration of
\* the task on.
NewTask(sender_id, message_text, task_key) ==
    [sender |-> sender_id, text |-> message_text, key |-> task_key,
     pc |-> "get_user_info",
     steps |-> <<"registered">>,
     responder |-> "not_called", \* the outcome of the generate_response call
     prior |-> <<>>,           \* the sender's history when the user turn is recorded
     user_turns |-> 0,         \* add_message(sender_id, "user", ...) calls made
     media |-> NoTrigger,      \* media_response
     media_sent |-> "no",      \* send_image / send_audio: "no", "ok", "failed"
     context |-> <<>>,         \* conversation_history
     responder_calls |-> 0,    \* runs of generate_response's body
     text_sends |-> 0,         \* send_text_with_delay calls made
     assistant_turns |-> 0]    \* add_message(sender_id, "assistant", ...) calls made

\* respond with a handler at line 220 that, instead of ending the task,
\* sends the media of a matched trigger again.
respond_retrying_media(tk, st) ==
    [tk EXCEPT !.context = get_context(st, tk.sender, 10),
               !.responder = "TypeError",
               !.pc = IF tk.media.matched THEN "send_media" ELSE "done"]

\* handle_user_message from `conversation_history = get_context(...)` on
\* (lines 207-221), for task record tk over store st.  The call of
\* generate_response passes two positional arguments and user_info= ;
\* when it does not bind, the call raises TypeError to handle_user_message,
\* which catches it at line 220, and the task ends.  Otherwise the task
\* suspends in the responder.
respond(tk, st) ==
    LET conversation_history == get_context(st, tk.sender, 10)
    IN IF generate_response_binds(2, {"user_info"})
       THEN [tk EXCEPT !.context = conversation_history,
                       !.steps = @ \o <<"context", "responder">>,
                       !.responder = "running",
                       !.responder_calls = @ + 1,
                       !.pc = "generate_response"]
       ELSE [tk EXCEPT !.context = conversation_history,
                       !.steps = @ \o <<"context", "responder", "completed">>,
                       !.responder = "TypeError",
                       !.pc = "done"]

\* The trigger table of the pipeline: one image trigger on "pic".
PipelineTriggers ==
    << [name |-> "photo", keywords |-> << <<"p", "i", "c">> >>,
        type |-> "image", path |-> "p1"] >>

\* Messaging events of a payload.  message: "none" (no message object),
\* "no_text" (a message object without text), "text".
EventPool ==
    { [sender |-> "u1", message |-> "text", text |-> <<"h", "i">>],
      [sender |-> "u1", message |-> "text", text |-> <<"P", "i", "c">>],
      [sender |-> "u2", message |-> "text", text |-> <<"h", "i">>],
      [sender |-> NoneId, message |-> "text", text |-> <<"h", "i">>],
      [sender |-> "u2", message |-> "no_text", text |-> <<>>],
      [sender |-> "u1", message |-> "none", text |-> <<>>] }

Init ==
    /\ now = 0
    /\ sessions = EmptyDict
    /\ last_activity = EmptyDict
    /\ seen_users = {}
    /\ calls = 0
    /\ call = NoCall
    /\ delay_config = DefaultDelayConfig
    /\ keyword_triggers = PipelineTriggers
    /\ message_tasks = EmptyDict
    /\ tasks = <<>>
    /\ wh_left = 0
    /\ deliveries = <<>>

\* process_webhook starts on a payload of n messaging events: it runs
\* without suspending, so no other coroutine runs until its loop has ended.
ProcessWebhook(n) ==
    /\ wh_left = 0
    /\ Len(tasks) < MaxTasks
    /\ wh_left' = n
    /\ call' = [op |-> "process_webhook"]
    /\ UNCHANGED <<now, storeVars, calls, seen_users, delay_config,
                   keyword_triggers, message_tasks, tasks, deliveries>>

\* One iteration of process_webhook's loop, over the messaging event it has
\* reached: the key, the task, its registration, and cleanup_tasks().
ProcessEvent(messaging_event) ==
    /\ wh_left > 0
    /\ messaging_event.message # "none" => Len(tasks) < MaxTasks
    /\ LET sender_id == messaging_event.sender
           message_text == IF messaging_event.message = "text"
                           THEN messaging_event.text ELSE <<>>
           task_key == <<sender_id, now>>
           task == Len(tasks) + 1
           registered == DictPut(message_tasks, task_key, task)
           started == Append(tasks, NewTask(sender_id, message_text, task_key))
       IN IF messaging_event.message # "none"
          THEN /\ tasks' = started
               /\ message_tasks' = cleanup_tasks(registered, started)
               /\ call' = [op |-> "dispatch", key |-> task_key,
                           registered |-> registered]
          ELSE /\ UNCHANGED <<tasks, message_tasks>>
               /\ call' = [op |-> "skip"]
    /\ wh_left' = wh_left - 1
    /\ UNCHANGED <<now, storeVars, calls, seen_users, delay_config,
                   keyword_triggers, deliveries>>

\* Resumable for a process_webhook that awaits each task it creates, so
\* that a task runs only when the tasks created before it have ended.
Resumable_in_turn(t) ==
    /\ wh_left = 0
    /\ \A e \in 1..(t - 1) : tasks[e].pc = "done"

\* Whether the event loop can resume task t once the call it awaits has
\* returned: process_webhook creates the tasks with asyncio.create_task
\* and awaits none of them, so a task waits only for the coroutine that is
\* running, a process_webhook in its loop, to end.
Resumable(t) == wh_left = 0

\* Time passes between two steps of the pipeline, also between two
\* iterations of process_webhook's loop.
PipelineTick ==
    /\ now + PipelineTickStep <= MaxPipelineTime
    /\ now' = now + PipelineTickStep
    /\ call' = [op |-> "tick"]
    /\ UNCHANGED <<storeVars, calls, seen_users, delay_config,
                   keyword_triggers, pipeVars>>

\* Task t resumes when get_user_info has returned: it records the user
\* turn, checks the triggers, and either suspends in the media send or goes
\* on to the responder call.
UserInfoReturns(t) ==
    /\ Resumable(t)
    /\ tasks[t].pc = "get_user_info"
    /\ LET tk == tasks[t]
           st == add_message(Store, tk.sender, "user", tk.text, now)
           media_response == check_triggers(keyword_triggers, tk.text)
           recorded == [tk EXCEPT !.prior = history_of(Store, tk.sender),
                                  !.user_turns = @ + 1,
                                  !.media = media_response,
                                  !.steps = @ \o <<"user_turn",
                                                   "trigger_check">>]
       IN /\ sessions' = st.sessions
          /\ last_activity' = st.last_activity
          /\ tasks' = [tasks EXCEPT ![t] =
                IF media_response.matched
                   /\ media_response.type \in {"image", "audio"}
                THEN [recorded EXCEPT !.pc = "send_media",
                                      !.steps = Append(@, "media_send")]
                ELSE respond(recorded, st)]
    /\ seen_users' = seen_users \cup {tasks[t].sender}
    /\ call' = [op |-> "handle_user_message"]
    /\ UNCHANGED <<now, calls, delay_config, keyword_triggers, message_tasks,
                   wh_left, deliveries>>

\* Task t resumes when send_image / send_audio has returned True (ok) or
\* False (a failed request, or an exception caught inside it), and goes on
\* to the responder call.
MediaReturns(t, ok) ==
    /\ Resumable(t)
    /\ tasks[t].pc = "send_media"
    /\ LET sent == [tasks[t] EXCEPT
                       !.media_sent = IF ok THEN "ok" ELSE "failed"]
       IN tasks' = [tasks EXCEPT ![t] = respond(sent, Store)]
    /\ call' = [op |-> "handle_user_message"]
    /\ UNCHANGED <<now, storeVars, calls, seen_users, delay_config,
                   keyword_triggers, message_tasks, wh_left, deliveries>>

Next ==
    \/ \E n \in 1..MaxEvents : ProcessWebhook(n)
    \/ \E messaging_event \in EventPool : ProcessEvent(messaging_event)
    \/ \E t \in DOMAIN tasks : UserInfoReturns(t)
    \/ \E t \in DOMAIN tasks, ok \in BOOLEAN : MediaReturns(t, ok)
    \/ PipelineTick

Spec == Init /\ [][Next]_vars

\* The steps of task t: its resumptions after an external call has returned.
TaskStep(t) ==
    /\ t \in DOMAIN tasks
    /\ \/ UserInfoReturns(t)
       \/ \E ok \in BOOLEAN : MediaReturns(t, ok)

\* The pipeline under the scheduling of the asyncio event loop: the loop of
\* process_webhook runs to its end without suspending, every external call
\* a task awaits returns at some time, and the event loop, which runs its
\* ready callbacks in the order they became ready, then resumes the task
\* however many process_webhook runs are started in between (strong
\* fairness: the runs of process_webhook disable the step only while they
\* last).  Nothing obliges a further webhook request to arrive.
\* The clock is left at its first reading: no step of a task and no
\* guard of the pipeline reads it.
NextFair ==
    \/ \E n \in 1..MaxEvents : ProcessWebhook(n)
    \/ \E messaging_event \in EventPool : ProcessEvent(messaging_event)
    \/ \E t \in DOMAIN tasks : TaskStep(t)

FairSpec ==
    /\ Init /\ [][NextFair]_vars
    /\ WF_vars(\E messaging_event \in EventPool : ProcessEvent(messaging_event))
    /\ \A t \in 1..MaxTasks : SF_vars(TaskStep(t))

\* The tasks that have ended (task.done()).
DoneTasks == {t \in DOMAIN tasks : tasks[t].pc = "done"}

(* C6: any two tasks dispatched by process_webhook get distinct registry   *)
(* keys, also two events of one sender dispatched at the same clock        *)
(* reading, so that registering a task never overwrites the handle of      *)
(* another task in message_tasks.                                          *)
C6_DistinctTaskKeys ==
    \A t1, t2 \in DOMAIN tasks : t1 # t2 => tasks[t1].key # tasks[t2].key

(* C7: cleanup_tasks removes exactly the handles whose task is done: of    *)
(* the registry as it is when a task has just been registered, every       *)
(* handle of an unfinished task stays under its key, every handle of a     *)
(* finished task is removed, and nothing else is added, whatever steps of  *)
(* other tasks and other process_webhook runs came before.                 *)
C7_SweepRemovesExactlyDone ==
    call.op = "dispatch" =>
        /\ DOMAIN message_tasks \subseteq DOMAIN call.registered
        /\ \A k \in DOMAIN call.registered :
              IF call.registered[k] \in DoneTasks
              THEN k \notin DOMAIN message_tasks
              ELSE /\ k \in DOMAIN message_tasks
                   /\ message_tasks[k] = call.registered[k]

\* A sweep has removed the handle of a finished task, registered under
\* another key by an earlier step, and kept the handle just registered.
C7_Witness ==
    /\ call.op = "dispatch"
    /\ \E k \in DOMAIN call.registered :
          k # call.key /\ call.registered[k] \in DoneTasks
    /\ DOMAIN message_tasks = {call.key}

(* C8: for an inbound event from a sender with no prior history,           *)
(* handle_user_message invokes the responder exactly once, and the         *)
(* conversation context passed to it is empty.                             *)
C8_OneResponderCallWithEmptyContext ==
    \A t \in DoneTasks :
        tasks[t].prior = <<>> =>
            /\ tasks[t].responder_calls = 1
            /\ tasks[t].context = <<>>

(* C9: for every well-formed inbound event (sender and text present) the   *)
(* pipeline records exactly one user turn and exactly one assistant turn   *)
(* for that sender: the event's task does not complete with the user turn  *)
(* recorded and no assistant turn recorded.                                *)
C9_UserAndAssistantTurnRecorded ==
    \A t \in DoneTasks :
        (tasks[t].sender # NoneId /\ tasks[t].text # <<>>) =>
            /\ tasks[t].user_turns = 1
            /\ tasks[t].assistant_turns = 1

(* C10: for a message whose text matches a configured trigger, the event's *)
(* pipeline both attempts the media send and sends the normal text reply,  *)
(* whether the media send succeeded or failed.                             *)
C10_MediaAndTextBothSent ==
    \A t \in DoneTasks :
        tasks[t].media.matched =>
            /\ tasks[t].media_sent \in {"ok", "failed"}
            /\ tasks[t].responder_calls = 1
            /\ tasks[t].text_sends = 1

(* C11: within one event's pipeline the steps occur only in the order     *)
(* registered, user turn, context retrieved, trigger check, media send,    *)
(* responder, delay, delivery, assistant turn, completed: in every task's  *)
(* log a step comes after the steps that precede it in this order, so the  *)
(* context is retrieved before the trigger check and before a media send.  *)
PipelineOrder ==
    <<"registered", "user_turn", "context", "trigger_check", "media_send",
      "responder", "delay", "delivery", "assistant_turn", "completed">>

OrderIndex(step) == CHOOSE i \in DOMAIN PipelineOrder : PipelineOrder[i] = step

C11_StepsInSpecifiedOrder ==
    \A t \in DOMAIN tasks :
        \A i, j \in DOMAIN tasks[t].steps :
            i < j => OrderIndex(tasks[t].steps[i]) < OrderIndex(tasks[t].steps[j])

(* C12: a malformed messaging event (no sender id, or a message object     *)
(* without text) causes no side effect: no task exists for it, and no      *)
(* session or turn is recorded for it.                                     *)
C12_MalformedEventHasNoEffect ==
    /\ \A t \in DOMAIN tasks :
          tasks[t].sender # NoneId /\ tasks[t].text # <<>>
    /\ NoneId \notin DOMAIN sessions
    /\ \A u \in DOMAIN sessions :
          \A i \in DOMAIN sessions[u] : sessions[u][i].content # <<>>

(* C13: every call of generate_response made by handle_user_message        *)
(* returns a reply text, the generated one or the fallback apology, and    *)
(* never raises to the caller.                                             *)
C13_ResponderNeverRaises ==
    \A t \in DOMAIN tasks :
        tasks[t].responder \in {"not_called", "running", "reply", "fallback"}

(* C14: every task process_webhook registers becomes done at some time,    *)
(* whether its media send succeeds or fails and although its responder     *)
(* call fails, given that each external call returns; and no step of the   *)
(* pipeline is taken twice for one event (nothing is retried).             *)
C14_EveryTaskCompletes ==
    /\ \A t \in 1..MaxTasks :
          (t \in DOMAIN tasks) ~> (t \in DOMAIN tasks /\ tasks[t].pc = "done")
    /\ [](\A t \in DOMAIN tasks :
            /\ \A i, j \in DOMAIN tasks[t].steps :
                  i # j => tasks[t].steps[i] # tasks[t].steps[j]
            /\ tasks[t].user_turns <= 1)

\* A task has ended after a failed media send and a failed responder call.
C14_Witness ==
    \E t \in DoneTasks :
        /\ tasks[t].media_sent = "failed"
        /\ tasks[t].responder = "TypeError"

\* Whether message_tasks holds the handle of task t.
Registered(t) == \E k \in DOMAIN message_tasks : message_tasks[k] = t

(* C19: every handle registered in message_tasks is removed at some time   *)
(* after its task has finished: a finished handle does not stay in the     *)
(* registry, counted in active_tasks, forever.                             *)
C19_FinishedHandleRemoved ==
    \A t \in 1..MaxTasks :
        (t \in DoneTasks /\ Registered(t)) ~> ~Registered(t)

C24_RecordStep ==
    /\ \A t \in DOMAIN tasks :
          tasks'[t].user_turns = tasks[t].user_turns + 1 =>
              LET u == tasks[t].sender
                  gone == expired_users(Store, now)
                  old == IF u \in DOMAIN sessions /\ u \notin gone
                         THEN sessions[u] ELSE <<>>
                  turn == [role |-> "user", content |-> tasks[t].text,
                           timestamp |-> now]
              IN /\ u \in DOMAIN sessions'
                 /\ sessions'[u] = LastTurns(Append(old, turn), HistoryCap)
                 /\ \A v \in DOMAIN sessions \ ({u} \cup gone) :
                       v \in DOMAIN sessions' /\ sessions'[v] = sessions[v]
    /\ (\A t \in DOMAIN tasks : tasks'[t].user_turns = tasks[t].user_turns)
          => sessions' = sessions

(* C24: under any interleaving of concurrently running handle_user_message *)
(* tasks, also of one sender, each add_message appends exactly its one     *)
(* turn as one atomic step: no recorded turn is lost, duplicated or        *)
(* overwritten other than by cap truncation, expiry or clear.              *)
C24_AppendsAreAtomic == [][C24_RecordStep]_vars

\* A task has recorded its user turn after the turn of an earlier task of
\* the same sender that is still suspended in its media send: the history
\* holds both turns.
C24_Witness ==
    \E t, e \in DOMAIN tasks :
        /\ e < t
        /\ tasks[e].sender = tasks[t].sender
        /\ tasks[e].pc = "send_media"
        /\ tasks[t].user_turns = 1
        /\ tasks[t].prior # <<>>
        /\ tasks[t].sender \in DOMAIN sessions
        /\ Len(sessions[tasks[t].sender]) = 2

\* The user turns of two messages of one sender are in the history in the
\* reverse of their arrival order: the task of the earlier message found
\* the later message's turn recorded, the later task found none.
UserTurnsOutOfArrivalOrder ==
    \E e, t \in DOMAIN tasks :
        /\ e < t
        /\ tasks[e].sender = tasks[t].sender
        /\ tasks[e].user_turns = 1 /\ tasks[t].user_turns = 1
        /\ tasks[t].prior = <<>>
        /\ Len(tasks[e].prior) = 1
        /\ tasks[e].prior[1].content = tasks[t].text

\* The step that ends the task of a message m1, taken when the user turn
\* of a later message m2 of the same sender is already recorded, leaves
\* the assistant turn for m1 as the last turn of the sender's history,
\* that is, after the user turn of m2.
C25_EndStep ==
    \A e, t \in DOMAIN tasks :
        ( /\ e < t
          /\ tasks[e].sender = tasks[t].sender
          /\ tasks[e].pc # "done"
          /\ tasks[t].user_turns = 1
          /\ tasks'[e].pc = "done" )
        => LET u == tasks[e].sender
           IN /\ u \in DOMAIN sessions'
              /\ sessions'[u] # <<>>
              /\ sessions'[u][Len(sessions'[u])].role = "assistant"

(* C25: per-sender ordering is not enforced: there are executions in which *)
(* two messages of one sender arrive in the order m1, m2 and their user    *)
(* turns are appended in the order m2, m1 (UserTurnsOutOfArrivalOrder),    *)
(* and executions in which the assistant turn for m1 is appended after the *)
(* user turn of m2.  The second part is stated for the schedule that       *)
(* produces it: whenever the task of m1 ends after the user turn of m2 has *)
(* been recorded, the assistant turn for m1 is appended behind that turn.  *)
C25_AssistantTurnAfterLaterUserTurn == [][C25_EndStep]_vars

---------------------------------------------------------------------------
(* Delivery: send_text_with_delay, run by POST /test/send (app.py)         *)

\* Number of /test/send requests in a run.
MaxDeliveries == 2

\* Bodies of /test/send requests: with a message, and without one
\* (data.get("message") is None).
SendRequests ==
    { [recipient_id |-> "u1", has_message |-> TRUE, text |-> Words(2)],
      [recipient_id |-> "u1", has_message |-> FALSE, text |-> <<>>] }

\* The run of send_text_with_delay(recipient_id, text) up to its first
\* suspension, r being the jitter drawn by calculate_delay.  log is the
\* sequence of requests made to the transport and to asyncio.sleep.  With
\* text None, calculate_delay raises AttributeError at text.split(), which
\* line 247 catches: the run ends before any request.
NewDelivery(request, r) ==
    IF request.has_message
    THEN [recipient |-> request.recipient_id, text |-> request.text,
          typing_delay |-> calculate_delay(delay_config, request.text,
                                           "text", r),
          pc |-> "typing_on", log |-> <<"typing_on">>,
          slept |-> 0,            \* the argument of asyncio.sleep
          sent |-> "no"]          \* send_text_message: "no", "ok", "failed"
    ELSE [recipient |-> request.recipient_id, text |-> request.text,
          typing_delay |-> 0, pc |-> "done", log |-> <<>>,
          slept |-> 0, sent |-> "no"]

\* POST /test/send: test_send_message awaits send_text_with_delay.
TestSend(request, r) ==
    /\ Len(deliveries) < MaxDeliveries
    /\ deliveries' = Append(deliveries, NewDelivery(request, r))
    /\ call' = [op |-> "test_send"]
    /\ UNCHANGED <<now, storeVars, calls, seen_users, delay_config,
                   keyword_triggers, message_tasks, tasks, wh_left>>

\* send_typing_indicator(recipient_id, "on") has returned True (ok) or
\* False; the value is dropped, and the run suspends in asyncio.sleep.
TypingOnReturns(d, ok) ==
    /\ deliveries[d].pc = "typing_on"
    /\ deliveries' = [deliveries EXCEPT ![d] =
          [@ EXCEPT !.pc = "sleep", !.log = Append(@, "sleep"),
                    !.slept = deliveries[d].typing_delay]]
    /\ call' = [op |-> "send_text_with_delay"]
    /\ UNCHANGED <<now, storeVars, calls, seen_users, delay_config,
                   keyword_triggers, message_tasks, tasks, wh_left>>

\* asyncio.sleep(typing_delay) has ended: the run requests the text send.
SleepEnds(d) ==
    /\ deliveries[d].pc = "sleep"
    /\ deliveries' = [deliveries EXCEPT ![d] =
          [@ EXCEPT !.pc = "send_text", !.log = Append(@, "send_text")]]
    /\ call' = [op |-> "send_text_with_delay"]
    /\ UNCHANGED <<now, storeVars, calls, seen_users, delay_config,
                   keyword_triggers, message_tasks, tasks, wh_left>>

\* SendTextReturns with a send_text_message that raises on a failed
\* request instead of returning False: line 247 catches, the run ends.
SendTextReturns_raising(d, ok) ==
    /\ deliveries[d].pc = "send_text"
    /\ deliveries' = [deliveries EXCEPT ![d] =
          IF ok
          THEN [@ EXCEPT !.pc = "typing_off", !.sent = "ok",
                         !.log = Append(@, "typing_off")]
          ELSE [@ EXCEPT !.pc = "done", !.sent = "failed"]]
    /\ call' = [op |-> "send_text_with_delay"]
    /\ UNCHANGED <<now, storeVars, calls, seen_users, delay_config,
                   keyword_triggers, message_tasks, tasks, wh_left>>

\* send_text_message has returned True (ok) or False (a status other than
\* 200, or an exception caught inside it); the run requests typing off.
SendTextReturns(d, ok) ==
    /\ deliveries[d].pc = "send_text"
    /\ deliveries' = [deliveries EXCEPT ![d] =
          [@ EXCEPT !.pc = "typing_off",
                    !.sent = IF ok THEN "ok" ELSE "failed",
                    !.log = Append(@, "typing_off")]]
    /\ call' = [op |-> "send_text_with_delay"]
    /\ UNCHANGED <<now, storeVars, calls, seen_users, delay_config,
                   keyword_triggers, message_tasks, tasks, wh_left>>

\* send_typing_indicator(recipient_id, "off") has returned: the run ends.
TypingOffReturns(d, ok) ==
    /\ deliveries[d].pc = "typing_off"
    /\ deliveries' = [deliveries EXCEPT ![d] = [@ EXCEPT !.pc = "done"]]
    /\ call' = [op |-> "send_text_with_delay"]
    /\ UNCHANGED <<now, storeVars, calls, seen_users, delay_config,
                   keyword_triggers, message_tasks, tasks, wh_left>>

\* The steps of delivery d.
DeliveryStep(d) ==
    /\ d \in DOMAIN deliveries
    /\ \/ \E ok \in BOOLEAN : TypingOnReturns(d, ok)
       \/ SleepEnds(d)
       \/ \E ok \in BOOLEAN : SendTextReturns(d, ok)
       \/ \E ok \in BOOLEAN : TypingOffReturns(d, ok)

NextSend ==
    \/ \E request \in SendRequests, r \in JitterDraws(delay_config) :
          TestSend(request, r)
    \/ \E d \in DOMAIN deliveries, ok \in BOOLEAN : TypingOnReturns(d, ok)
    \/ \E d \in DOMAIN deliveries : SleepEnds(d)
    \/ \E d \in DOMAIN deliveries, ok \in BOOLEAN : SendTextReturns(d, ok)
    \/ \E d \in DOMAIN deliveries, ok \in BOOLEAN : TypingOffReturns(d, ok)

\* The deliveries under the scheduling of the event loop: every request to
\* the transport returns, every sleep ends, and the run is then resumed.
SpecSend ==
    /\ Init /\ [][NextSend]_vars
    /\ \A d \in 1..MaxDeliveries : WF_vars(DeliveryStep(d))

\* The requests of a delivery, in the order send_text_with_delay makes them.
DeliveryOrder == <<"typing_on", "sleep", "send_text", "typing_off">>

\* Whether step has been requested in delivery d.
Requested(d, step) ==
    /\ d \in DOMAIN deliveries
    /\ \E i \in DOMAIN deliveries[d].log : deliveries[d].log[i] = step

(* C15: in every delivery the requests occur in the order typing on, wait  *)
(* of the computed delay, text send, typing off (the log is at all times   *)
(* a prefix of this sequence, and the wait is of the delay calculate_delay *)
(* returned), and every typing on is followed by a typing off, also when   *)
(* the text send reports failure.                                          *)
C15_DeliveryOrder ==
    /\ [](\A d \in DOMAIN deliveries :
            /\ Len(deliveries[d].log) <= Len(DeliveryOrder)
            /\ deliveries[d].log =
                  SubSeq(DeliveryOrder, 1, Len(deliveries[d].log))
            /\ Requested(d, "sleep") =>
                  deliveries[d].slept = deliveries[d].typing_delay)
    /\ \A d \in 1..MaxDeliveries :
          Requested(d, "typing_on") ~> Requested(d, "typing_off")

\* A delivery has ended with all four requests made, the text send having
\* reported failure.
C15_Witness ==
    \E d \in DOMAIN deliveries :
        /\ deliveries[d].pc = "done"
        /\ deliveries[d].sent = "failed"
        /\ deliveries[d].log = DeliveryOrder

---------------------------------------------------------------------------
(* Administrative endpoints: /settings/delay, /triggers/add,               *)
(* /triggers/{trigger_name} (app.py)                                       *)

\* What a request body gives for one field of the delay settings: nothing,
\* a value float() converts (in ms), or a value float() raises on.
DelayFieldValues(values) ==
    {[given |-> FALSE, number |-> FALSE, value |-> 0],
     [given |-> TRUE, number |-> FALSE, value |-> 0]}
    \cup {[given |-> TRUE, number |-> TRUE, value |-> v] : v \in values}

\* Bodies of PUT /settings/delay.
DelayUpdates ==
    [base_seconds : DelayFieldValues({2000}),
     per_word_seconds : DelayFieldValues({300}),
     max_seconds : DelayFieldValues({1200})]

\* One `if f in data: config["typing_delay"][f] = float(data[f])` of
\* update_delay_settings, on the outcome res of the statements before it:
\* nothing more runs once float() has raised.
set_delay_field(res, data, f) ==
    IF res.status # 200 \/ ~data[f].given THEN res
    ELSE IF data[f].number
         THEN [res EXCEPT !.config[f] = data[f].value]
         ELSE [res EXCEPT !.status = 500]

\* update_delay_settings on the dictionary cfg, which is at once
\* config["typing_delay"] and delay_handler.delay_config (DelayHandler
\* keeps the reference, delay_handler.py:15): the fields are assigned in
\* place one after the other, and an exception of float() is answered
\* with status 500 (line 454) with the assignments made so far left in
\* place.
update_delay_settings(cfg, data) ==
    set_delay_field(
        set_delay_field(
            set_delay_field([config |-> cfg, status |-> 200],
                            data, "base_seconds"),
            data, "per_word_seconds"),
        data, "max_seconds")

\* PUT /settings/delay.  The handler does not suspend between its
\* assignments (request.json() is awaited before them).
UpdateDelaySettings(data) ==
    /\ LET res == update_delay_settings(delay_config, data)
       IN /\ delay_config' = res.config
          /\ call' = [op |-> "update_delay_settings", data |-> data,
                      status |-> res.status]
    /\ UNCHANGED <<now, storeVars, calls, seen_users, keyword_triggers,
                   pipeVars>>

\* cfg with every field the body gives replaced by the body's value.
AllApplied(cfg, data) ==
    [f \in DOMAIN cfg |->
        IF f \in DOMAIN data /\ data[f].given THEN data[f].value
        ELSE cfg[f]]

\* An update step either applies every field of its body, answering 200,
\* or fails and leaves the configuration as it was.
C21_UpdateStep ==
    call'.op = "update_delay_settings" =>
        IF call'.status = 200
        THEN delay_config' = AllApplied(delay_config, call'.data)
        ELSE delay_config' = delay_config

(* C21: updating the delay tuning is all-or-nothing: update_delay_settings *)
(* either applies every supplied field, or fails and leaves the            *)
(* configuration calculate_delay reads unchanged; calculate_delay never    *)
(* reads a configuration with part of one update applied.                  *)
C21_DelayUpdateAllOrNothing == [][C21_UpdateStep]_vars

\* Bodies of POST /triggers/add.  A field the body lacks is None after
\* data.get (keywords: []); both are written here as the empty value.
AddRequests ==
    LET t1 == [name |-> "t1", keywords |-> << <<"a", "b">> >>,
               type |-> "image", path |-> "p1"]
    IN { t1,
         [name |-> "t1", keywords |-> << <<"b">> >>,
          type |-> "audio", path |-> "p2"],
         [name |-> "t2", keywords |-> << <<"A", "B">>, <<"b">> >>,
          type |-> "audio", path |-> "p2"],
         [t1 EXCEPT !.name = ""],
         [t1 EXCEPT !.keywords = <<>>],
         [t1 EXCEPT !.type = ""],
         [t1 EXCEPT !.path = ""] }

\* all([name, keywords, type, path]) of line 376.
all_fields(new_trigger) ==
    /\ new_trigger.name # ""
    /\ new_trigger.keywords # <<>>
    /\ new_trigger.type # ""
    /\ new_trigger.path # ""

\* add_trigger with the append made before the fields are checked.
add_trigger_appending_first(table, new_trigger) ==
    [table |-> Append(table, new_trigger),
     status |-> IF all_fields(new_trigger) THEN 200 ELSE 500]

\* add_trigger of app.py on the list config["media_triggers"], which is
\* also media_handler.keyword_triggers.  The HTTPException(400) of line
\* 377 is raised inside the try block and is an Exception: line 394
\* catches it and line 396 answers with status 500.
add_trigger(table, new_trigger) ==
    IF ~all_fields(new_trigger)
    THEN [table |-> table, status |-> 500]
    ELSE [table |-> Append(table, new_trigger), status |-> 200]

\* delete_trigger of app.py: the list without the triggers of that name.
delete_trigger(table, trigger_name) ==
    [table |-> SelectSeq(table, LAMBDA t : t.name # trigger_name),
     status |-> 200]

\* POST /triggers/add.
AddTrigger(data) ==
    /\ LET res == add_trigger(keyword_triggers, data)
       IN /\ Len(res.table) <= MaxTriggers
          /\ keyword_triggers' = res.table
          /\ call' = [op |-> "add_trigger", data |-> data,
                      status |-> res.status]
    /\ UNCHANGED <<now, storeVars, calls, seen_users, delay_config, pipeVars>>

\* DELETE /triggers/{trigger_name}.
DeleteTrigger(trigger_name) ==
    /\ LET res == delete_trigger(keyword_triggers, trigger_name)
       IN /\ keyword_triggers' = res.table
          /\ call' = [op |-> "delete_trigger", name |-> trigger_name,
                      status |-> res.status]
    /\ UNCHANGED <<now, storeVars, calls, seen_users, delay_config, pipeVars>>

\* Texts handed to calculate_delay and to check_triggers between two
\* administrative requests.
AdminDelayTexts == {Words(2), Words(5)}
AdminTriggerTexts == {<<"a", "b">>, <<"B">>, <<"a">>}

\* The state after module initialisation with the fallback configuration.
InitAdmin ==
    /\ now = 0
    /\ sessions = EmptyDict
    /\ last_activity = EmptyDict
    /\ seen_users = {}
    /\ calls = 0
    /\ call = NoCall
    /\ delay_config = DefaultDelayConfig
    /\ keyword_triggers = <<>>
    /\ message_tasks = EmptyDict
    /\ tasks = <<>>
    /\ wh_left = 0
    /\ deliveries = <<>>

NextAdmin ==
    \/ \E data \in DelayUpdates : UpdateDelaySettings(data)
    \/ \E data \in AddRequests : AddTrigger(data)
    \/ \E name \in {"t1", "t2"} : DeleteTrigger(name)
    \/ \E text \in AdminTriggerTexts : CheckTriggers(text)
    \/ \E text \in AdminDelayTexts, r \in JitterDraws(delay_config) :
          CalculateDelay(text, "text", r)

SpecAdmin == InitAdmin /\ [][NextAdmin]_vars

\* An add-trigger step with a required field missing is answered with an
\* error status and leaves the table, and so every result of
\* check_triggers, as it was.
C22_RejectStep ==
    ( /\ call'.op = "add_trigger"
      /\ \/ call'.data.name = ""
         \/ call'.data.keywords = <<>>
         \/ call'.data.type = ""
         \/ call'.data.path = "" )
    => /\ call'.status >= 400
       /\ keyword_triggers' = keyword_triggers
       /\ \A text \in AdminTriggerTexts :
             check_triggers(keyword_triggers', text)
                 = check_triggers(keyword_triggers, text)

(* C22: an add-trigger request missing a required field (name, keywords,   *)
(* type or path) is rejected with an error the client sees and leaves the  *)
(* active trigger table unchanged, so that check_triggers returns what it  *)
(* returned before the request.                                            *)
C22_InvalidTriggerRejected == [][C22_RejectStep]_vars

\* A request without keywords has been refused while the table held a
\* trigger.
C22_Witness ==
    /\ call.op = "add_trigger"
    /\ call.data.keywords = <<>>
    /\ call.status = 500
    /\ Len(keyword_triggers) >= 1

(* C23: in every reachable state of the active trigger table, after any    *)
(* sequence of add-trigger and delete-trigger operations, no two triggers  *)
(* of the table have the same name.                                        *)
C23_TriggerNamesUnique ==
    \A i, j \in DOMAIN keyword_triggers :
        i # j => keyword_triggers[i].name # keyword_triggers[j].name

---------------------------------------------------------------------------
(* The standalone chat endpoint, POST /chat (app.py), beside the webhook    *)
(* path, as the session store sees them.                                   *)

\* Number of /chat requests and webhook messages in a run.
MaxRequests == 3

\* str.strip(): the text without its leading and trailing blanks.
RECURSIVE strip(_)
strip(text) ==
    IF text = <<>> THEN <<>>
    ELSE IF Head(text) = " " THEN strip(Tail(text))
    ELSE IF text[Len(text)] = " " THEN strip(SubSeq(text, 1, Len(text) - 1))
    ELSE text

\* The reply the responder would return.
ChatReply == <<"o", "k">>

\* chat_endpoint over store st at clock t for the request body data:
\* user_id defaults to "test_user", the message to "" and is stripped; an
\* empty message raises HTTPException(400) inside the try block, which the
\* handler of line 350 turns into a 500.  Otherwise the user turn is
\* recorded, the context read, and generate_response called with three
\* positional arguments: when the call does not bind, the TypeError is
\* turned into a 500; when it binds, the delay of the reply is calculated
\* (jitter r), the assistant turn recorded and 200 returned.  No branch
\* sleeps.
chat_endpoint(st, data, reply, r, t) ==
    LET user_id == IF data.has_user_id THEN data.user_id ELSE "test_user"
        message_text == strip(IF data.has_message THEN data.message ELSE <<>>)
        recorded == add_message(st, user_id, "user", message_text, t)
        conversation_history == get_context(recorded, user_id, 10)
    IN IF message_text = <<>>
       THEN [store |-> st, status |-> 500, user |-> user_id,
             history |-> <<>>, responder |-> "not_called",
             delay_calls |-> 0, typing_delay |-> 0]
       ELSE IF generate_response_binds(3, {})
       THEN [store |-> add_message(recorded, user_id, "assistant", reply, t),
             status |-> 200, user |-> user_id,
             history |-> conversation_history, responder |-> "reply",
             delay_calls |-> 1,
             typing_delay |-> calculate_delay(delay_config, reply, "text", r)]
       ELSE [store |-> recorded, status |-> 500, user |-> user_id,
             history |-> conversation_history, responder |-> "TypeError",
             delay_calls |-> 0, typing_delay |-> 0]

\* The calls handle_user_message(sender_id, _, message_text) makes on the
\* session store, over store st, when its external calls return at clock
\* t: the user turn, the context, the responder call with two positional
\* arguments and user_info=, and, when that call binds, the assistant turn
\* after send_text_with_delay, which computes the delay of the reply and
\* returns whether or not the text was delivered.  When the call does not
\* bind, the handler of line 220 ends the run after the user turn.
handle_user_message(st, sender_id, message_text, reply, t) ==
    LET recorded == add_message(st, sender_id, "user", message_text, t)
        conversation_history == get_context(recorded, sender_id, 10)
    IN IF generate_response_binds(2, {"user_info"})
       THEN [store |-> add_message(recorded, sender_id, "assistant", reply, t),
             history |-> conversation_history, responder |-> "reply",
             delay_calls |-> 1]
       ELSE [store |-> recorded, history |-> conversation_history,
             responder |-> "TypeError", delay_calls |-> 0]

\* Bodies of /chat requests: a plain message, one with blanks around it,
\* one of blanks only, one without user_id, one without message.
ChatRequests ==
    { [has_user_id |-> TRUE, user_id |-> "u1",
       has_message |-> TRUE, message |-> <<"h", "i">>],
      [has_user_id |-> TRUE, user_id |-> "u1",
       has_message |-> TRUE, message |-> <<" ", "h", "i", " ">>],
      [has_user_id |-> TRUE, user_id |-> "u1",
       has_message |-> TRUE, message |-> <<" ">>],
      [has_user_id |-> FALSE, user_id |-> "",
       has_message |-> TRUE, message |-> <<"h", "i">>],
      [has_user_id |-> TRUE, user_id |-> "u1",
       has_message |-> FALSE, message |-> <<>>] }

\* Texts of webhook messages: the texts of the /chat requests.
WebhookTexts == {<<"h", "i">>, <<" ", "h", "i", " ">>}

\* POST /chat with body data.
ChatEndpoint(data) ==
    /\ calls < MaxRequests
    /\ \E r \in JitterDraws(delay_config) :
          LET res == chat_endpoint(Store, data, ChatReply, r, now)
          IN /\ sessions' = res.store.sessions
             /\ last_activity' = res.store.last_activity
             /\ seen_users' = seen_users \cup DOMAIN res.store.sessions
             /\ call' = [op |-> "chat", data |-> data, user |-> res.user,
                         status |-> res.status,
                         responder |-> res.responder,
                         delay_calls |-> res.delay_calls]
    /\ calls' = calls + 1
    /\ UNCHANGED <<now, delay_config, keyword_triggers, pipeVars>>

\* A webhook message of sender_id with text message_text, handled by
\* handle_user_message.
HandleUserMessage(sender_id, message_text) ==
    /\ calls < MaxRequests
    /\ LET res == handle_user_message(Store, sender_id, message_text,
                                      ChatReply, now)
       IN /\ sessions' = res.store.sessions
          /\ last_activity' = res.store.last_activity
          /\ seen_users' = seen_users \cup DOMAIN res.store.sessions
          /\ call' = [op |-> "webhook_message", user |-> sender_id,
                      text |-> message_text, responder |-> res.responder,
                      delay_calls |-> res.delay_calls]
    /\ calls' = calls + 1
    /\ UNCHANGED <<now, delay_config, keyword_triggers, pipeVars>>

InitChat ==
    /\ now = 0
    /\ sessions = EmptyDict
    /\ last_activity = EmptyDict
    /\ seen_users = {}
    /\ calls = 0
    /\ call = NoCall
    /\ delay_config = DefaultDelayConfig
    /\ keyword_triggers = <<>>
    /\ message_tasks = EmptyDict
    /\ tasks = <<>>
    /\ wh_left = 0
    /\ deliveries = <<>>

NextChat ==
    \/ \E data \in ChatRequests : ChatEndpoint(data)
    \/ \E text \in WebhookTexts : HandleUserMessage("u1", text)
    \/ Tick

SpecChat == InitChat /\ [][NextChat]_vars

\* Every /chat request with a message of blanks only, or with none, is
\* refused and leaves the store as it was.
C32_EmptyMessageRejected ==
    [][ ( /\ call'.op = "chat"
          /\ (~call'.data.has_message \/ strip(call'.data.message) = <<>>) )
        => /\ call'.status >= 400
           /\ sessions' = sessions
           /\ last_activity' = last_activity ]_vars

\* Every /chat request whose message has no blanks around it leaves the
\* store as handle_user_message leaves it for that user and message.
C32_SameStoreForStrippedMessage ==
    [][ ( /\ call'.op = "chat"
          /\ call'.data.has_message
          /\ call'.data.message # <<>>
          /\ strip(call'.data.message) = call'.data.message )
        => [sessions |-> sessions', last_activity |-> last_activity']
             = handle_user_message(Store, call'.user, call'.data.message,
                                   ChatReply, now).store ]_vars

\* A /chat step with a non-empty message leaves the store as the webhook
\* path leaves it for the same user and message, with the assistant turn
\* for the reply as the last turn of the user's history, and has computed
\* the delay once and answered 200; a /chat step with an empty message
\* leaves the store as it was and answers with an error.
C32_ChatStep ==
    call'.op = "chat" =>
        LET message == IF call'.data.has_message
                       THEN call'.data.message ELSE <<>>
            u == call'.user
        IN IF strip(message) = <<>>
           THEN /\ call'.status >= 400
                /\ sessions' = sessions
                /\ last_activity' = last_activity
           ELSE /\ [sessions |-> sessions', last_activity |-> last_activity']
                     = handle_user_message(Store, u, message,
                                           ChatReply, now).store
                /\ u \in DOMAIN sessions'
                /\ sessions'[u][Len(sessions'[u])].role = "assistant"
                /\ call'.delay_calls = 1
                /\ call'.status = 200

(* C32: for the same user, message and responder reply, the /chat path and *)
(* the webhook path leave the session store in the same state (user turn   *)
(* recorded, context retrieved, responder invoked, assistant turn          *)
(* recorded); the /chat path computes the delay once and returns it        *)
(* without waiting, and rejects an empty message before any session        *)
(* change.                                                                 *)
C32_ChatMatchesWebhookPath == [][C32_ChatStep]_vars

===========================================================================
